---- MODULE Spec2Model ----
(***************************************************************************)
(* Driver identity and authorization core of the dispatch platform:        *)
(*   - the drivers table as the dispatcher's Drivers form writes it,       *)
(*   - the two revisions of authenticate_driver and DriverLogin on top,    *)
(*   - the bearer-token lookup and the driver RLS policies on projects,    *)
(*   - the project status transition, server function and client path,     *)
(*   - the driver's project fetch.                                         *)
(* Text values are sequences of one-character strings so that TRIM, LOWER  *)
(* and String.prototype.trim are computed, not assumed.                    *)
(***************************************************************************)
EXTENDS Integers, Sequences, FiniteSets, Bags, TLC

VARIABLES
    drivers,        \* table drivers: driver uuid -> row
    authRev,        \* which authenticate_driver the database holds
    driver,         \* DriverApp state `driver`: {id, name, uuid, token}, or NoDriver
    loginError,     \* DriverLogin state `error`
    projects,       \* table projects: project uuid -> row
    now,            \* the database clock, now()
    localProjects,  \* DriverDataProvider state `projects`
    upd,            \* the client's updateProjectStatus call in progress
    rpc,            \* a server function call in progress
    fetchError,     \* DriverDataProvider state `error`
    retryCount,     \* DriverDataProvider state `retryCount`
    loading,        \* DriverDataProvider state `loading`
    companies,      \* DriverDataProvider state `companies`
    timers,         \* the delays of the setTimeout callbacks not yet run
    fetches,        \* the fetchDriverProjects calls in progress
    hist,           \* since the mount: how many projects queries failed, the
                    \* answers in the order the client received them, whether
                    \* a fetch succeeded, the delay that preceded each retry
    ev              \* the last completed operation with its inputs and result

vars == <<drivers, authRev, driver, loginError, projects, now, localProjects, upd, rpc,
          fetchError, retryCount, loading, companies, timers, fetches, hist, ev>>

authVars == <<drivers, authRev, driver, loginError>>
tripVars == <<projects, now, localProjects, upd, rpc>>
fetchVars == <<fetchError, retryCount, loading, companies, timers, fetches, hist>>

-----------------------------------------------------------------------------
(* Values *)

NULL == "null"
NullText == <<"NULL">>          \* SQL NULL of type text
Empty == <<>>                   \* the empty string ''

NoRows == [x \in {} |-> NULL]   \* a table without rows
Idle == [pc |-> "idle"]         \* no call in progress
NoHistory == [failures |-> 0, answers |-> <<>>, succeeded |-> FALSE, retries |-> <<>>]

DriverIds == {"d1", "d2"}
Tokens == {"t1", "t2"}
Names == {"Ann", "Bob"}
Uuids == DriverIds \cup Tokens

\* Bound of the model: how many writes the database clock stamps.
MaxClock == 3

-----------------------------------------------------------------------------
(* Text functions *)

IsSpace(c) == c = " "

RECURSIVE LTrim(_)
LTrim(s) == IF s # <<>> /\ IsSpace(Head(s)) THEN LTrim(Tail(s)) ELSE s

RECURSIVE RTrim(_)
RTrim(s) == IF s # <<>> /\ IsSpace(s[Len(s)]) THEN RTrim(SubSeq(s, 1, Len(s) - 1)) ELSE s

\* SQL TRIM(x): NULL stays NULL, otherwise both ends lose their spaces.
SqlTrim(s) == IF s = NullText THEN NullText ELSE RTrim(LTrim(s))

\* String.prototype.trim()
JsTrim(s) == RTrim(LTrim(s))

LowerChar(c) == CASE c = "A" -> "a" [] c = "B" -> "b" [] OTHER -> c

\* SQL LOWER(x)
SqlLower(s) ==
    IF s = NullText \/ s = <<>> THEN s ELSE [i \in 1..Len(s) |-> LowerChar(s[i])]

\* SQL a = b on text: true only when both are non-NULL and equal.
SqlEq(a, b) == a # NullText /\ b # NullText /\ a = b

\* SQL a != b: true only when both are non-NULL and differ.
SqlNe(a, b) == a # NullText /\ b # NullText /\ a # b

\* SQL a = b on uuid.
UuidEq(a, b) == a # NULL /\ b # NULL /\ a = b

-----------------------------------------------------------------------------
(* The Drivers form *)

\* What the dispatcher types into the form (license is free text,
\* the PIN field carries pattern [0-9]{4,6}).
FormLicenses == {<<"A">>, <<"a">>, <<" ", "A">>, <<"B">>}
FormPins == {<<"1", "2", "3", "4">>, <<"4", "3", "2", "1">>}
Statuses == {"available", "busy", "offline"}

FormData == [name : Names, license : FormLicenses, status : Statuses, pin : FormPins]

\* drivers.find(driver => driver.license === formData.license && driver.id !== editingDriver)
duplicateId(tbl, formData, editingDriver) ==
    \E d \in DOMAIN tbl : tbl[d].license = formData.license /\ d # editingDriver

\* drivers.find(driver => driver.pin === formData.pin && driver.id !== editingDriver)
duplicatePin(tbl, formData, editingDriver) ==
    \E d \in DOMAIN tbl : tbl[d].pin = formData.pin /\ d # editingDriver

\* The tokens the table holds.
UsedTokens(tbl) == {tbl[d].auth_token : d \in DOMAIN tbl} \ {NULL}

\* The row the store creates for a new driver: the form's fields and a bearer
\* token that is absent or unique.
NewRow(formData, tok) ==
    [name |-> formData.name, license |-> formData.license, status |-> formData.status,
     pin |-> formData.pin, auth_token |-> tok]

\* Drivers.handleSubmit with editingDriver = null
Drivers_handleSubmit(formData) ==
    /\ ~duplicateId(drivers, formData, NULL)
    /\ ~duplicatePin(drivers, formData, NULL)
    /\ \E d \in DriverIds \ DOMAIN drivers :
       \E tok \in {NULL} \cup (Tokens \ UsedTokens(drivers)) :
            drivers' = [x \in DOMAIN drivers \cup {d} |->
                            IF x = d THEN NewRow(formData, tok) ELSE drivers[x]]
    /\ ev' = [op |-> "addDriver"]
    /\ UNCHANGED <<authRev, driver, loginError>>
    /\ UNCHANGED tripVars
    /\ UNCHANGED fetchVars

\* Drivers.handleUpdate
Drivers_handleUpdate(editingDriver, formData) ==
    /\ editingDriver \in DOMAIN drivers
    /\ ~duplicateId(drivers, formData, editingDriver)
    /\ ~duplicatePin(drivers, formData, editingDriver)
    /\ drivers' = [drivers EXCEPT ![editingDriver] =
                        NewRow(formData, drivers[editingDriver].auth_token)]
    /\ ev' = [op |-> "updateDriver"]
    /\ UNCHANGED <<authRev, driver, loginError>>
    /\ UNCHANGED tripVars
    /\ UNCHANGED fetchVars

\* Drivers.handleDeleteDriver
Drivers_handleDeleteDriver(id) ==
    /\ id \in DOMAIN drivers
    /\ drivers' = [x \in DOMAIN drivers \ {id} |-> drivers[x]]
    /\ ev' = [op |-> "deleteDriver"]
    /\ UNCHANGED <<authRev, driver, loginError>>
    /\ UNCHANGED tripVars
    /\ UNCHANGED fetchVars

-----------------------------------------------------------------------------
(* authenticate_driver, first revision (license_id, pin_code) *)

V1 == "authenticate_driver(license_id, pin_code)"
V2 == "authenticate_driver(driver_id, driver_pin)"

\* The rows of drivers the first revision's WHERE clause keeps.
MatchV1(tbl, license_id, pin_code) ==
    {d \in DOMAIN tbl :
        /\ SqlEq(tbl[d].license, license_id)
        /\ SqlEq(tbl[d].pin, pin_code)
        /\ tbl[d].status # "offline"}

OkRowV1(tbl, d) ==
    [success |-> TRUE, driver_id |-> d, driver_name |-> tbl[d].name,
     driver_license |-> tbl[d].license]

FailRowV1 ==
    [success |-> FALSE, driver_id |-> NULL, driver_name |-> NULL, driver_license |-> NullText]

\* The function's result: whether the drivers table was queried, and the rows
\* it may return (LIMIT 1 without ORDER BY keeps any one matching row).
authenticate_driver_v1(tbl, license_id, pin_code) ==
    LET m == MatchV1(tbl, license_id, pin_code)
    IN  [queried |-> TRUE,
         rows |-> IF m # {} THEN {OkRowV1(tbl, d) : d \in m} ELSE {FailRowV1}]

(* authenticate_driver, second revision (driver_id, driver_pin) *)

\* The rows of drivers the second revision's WHERE clause keeps.
MatchV2(tbl, driver_id, driver_pin) ==
    {d \in DOMAIN tbl :
        /\ SqlEq(SqlLower(SqlTrim(tbl[d].license)), SqlLower(SqlTrim(driver_id)))
        /\ SqlEq(SqlTrim(tbl[d].pin), SqlTrim(driver_pin))}

OkRowV2(tbl, d) ==
    [success |-> TRUE, driver_id_result |-> d, driver_name |-> tbl[d].name,
     driver_license |-> tbl[d].license, error_message |-> NULL]

FailRowV2(msg) ==
    [success |-> FALSE, driver_id_result |-> NULL, driver_name |-> NULL,
     driver_license |-> NullText, error_message |-> msg]

\* The row returned when the query finds no driver.
NotFoundRowV2 == FailRowV2("Invalid credentials")

\* A variant that reports a wrong PIN for a known license apart.
authenticate_driver_v2_wrong_pin(tbl, driver_id, driver_pin) ==
    IF driver_id = NullText \/ driver_id = Empty
    THEN [queried |-> FALSE, rows |-> {FailRowV2("Driver ID is required")}]
    ELSE IF driver_pin = NullText \/ driver_pin = Empty
    THEN [queried |-> FALSE, rows |-> {FailRowV2("PIN is required")}]
    ELSE LET m == MatchV2(tbl, driver_id, driver_pin)
             known == \E d \in DOMAIN tbl :
                        SqlEq(SqlLower(SqlTrim(tbl[d].license)), SqlLower(SqlTrim(driver_id)))
         IN  [queried |-> TRUE,
              rows |-> IF m # {} THEN {OkRowV2(tbl, d) : d \in m}
                       ELSE IF known THEN {FailRowV2("Invalid PIN")} ELSE {NotFoundRowV2}]

\* A variant in which the second revision keeps the status filter of the first.
authenticate_driver_v2_not_offline(tbl, driver_id, driver_pin) ==
    IF driver_id = NullText \/ driver_id = Empty
    THEN [queried |-> FALSE, rows |-> {FailRowV2("Driver ID is required")}]
    ELSE IF driver_pin = NullText \/ driver_pin = Empty
    THEN [queried |-> FALSE, rows |-> {FailRowV2("PIN is required")}]
    ELSE LET m == {d \in MatchV2(tbl, driver_id, driver_pin) : tbl[d].status # "offline"}
         IN  [queried |-> TRUE,
              rows |-> IF m # {} THEN {OkRowV2(tbl, d) : d \in m} ELSE {NotFoundRowV2}]

authenticate_driver_v2(tbl, driver_id, driver_pin) ==
    IF driver_id = NullText \/ driver_id = Empty
    THEN [queried |-> FALSE, rows |-> {FailRowV2("Driver ID is required")}]
    ELSE IF driver_pin = NullText \/ driver_pin = Empty
    THEN [queried |-> FALSE, rows |-> {FailRowV2("PIN is required")}]
    ELSE LET m == MatchV2(tbl, driver_id, driver_pin)
         IN  [queried |-> TRUE,
              rows |-> IF m # {} THEN {OkRowV2(tbl, d) : d \in m} ELSE {NotFoundRowV2}]

\* The function the database holds.
authenticate_driver(rev, tbl, a, b) ==
    IF rev = V1 THEN authenticate_driver_v1(tbl, a, b) ELSE authenticate_driver_v2(tbl, a, b)

\* The second migration: DROP FUNCTION authenticate_driver(text, text), then
\* CREATE the revision with the parameters (driver_id, driver_pin).
MigrateAuth ==
    /\ authRev = V1
    /\ authRev' = V2
    /\ ev' = [op |-> "migrate"]
    /\ UNCHANGED <<drivers, driver, loginError>>
    /\ UNCHANGED tripVars
    /\ UNCHANGED fetchVars

\* The argument names of the function the database holds; supabase.rpc passes
\* its arguments by name.
ParamNames(rev) == IF rev = V1 THEN {"license_id", "pin_code"} ELSE {"driver_id", "driver_pin"}

\* The argument names DriverLogin passes to rpc('authenticate_driver', ...).
LoginArgNames == {"license_id", "pin_code"}

-----------------------------------------------------------------------------
(* Inputs of the authentication operations *)

LoginIds == {<<"A">>, <<" ", "a", " ">>, <<"B">>, <<" ">>, Empty}
LoginPins == {<<"1", "2", "3", "4">>, <<"4", "3", "2", "1">>, <<" ", "1", "2", "3", "4">>, Empty}
RpcIds == LoginIds \cup {NullText}
RpcPins == LoginPins \cup {NullText}

-----------------------------------------------------------------------------
(* DriverLogin and DriverApp *)

MsgEnterBoth == "Please enter both Driver ID and PIN"
MsgLoginFailed == "Login failed. Please check your credentials."
MsgInvalid == "Invalid Driver ID or PIN. Please check your credentials and try again."

\* DriverApp state `driver` when it is null.
NoDriver == [id |-> NullText, name |-> NULL, uuid |-> NULL, token |-> NULL]

\* DriverApp.handleDriverLogin
handleDriverLogin(driverId, driverName, driverUuid) ==
    [id |-> driverId, name |-> driverName, uuid |-> driverUuid, token |-> NULL]

\* What DriverLogin.handleSubmit may end with for the typed driverId and pin:
\* the error it shows, the driver it hands to onDriverLogin (NoDriver when it
\* does not call it) and whether the request queried the drivers table.
LoginResult(rev, tbl, driverId, pin) ==
    IF JsTrim(driverId) = Empty \/ JsTrim(pin) = Empty
    THEN {[outcome |-> "validation", error |-> MsgEnterBoth, driver |-> NoDriver,
           queried |-> FALSE]}
    ELSE IF ParamNames(rev) # LoginArgNames
    THEN {[outcome |-> "authError", error |-> MsgLoginFailed, driver |-> NoDriver,
           queried |-> FALSE]}
    ELSE LET res == authenticate_driver(rev, tbl, JsTrim(driverId), JsTrim(pin))
         IN  {IF row.success
              THEN [outcome |-> "ok", error |-> "",
                    driver |-> handleDriverLogin(row.driver_license, row.driver_name,
                                                 row.driver_id),
                    queried |-> res.queried]
              ELSE [outcome |-> "invalid", error |-> MsgInvalid, driver |-> NoDriver,
                    queried |-> res.queried] : row \in res.rows}

\* DriverLogin.handleSubmit; the form is rendered while DriverApp has no driver.
DriverLogin_handleSubmit(driverId, pin) ==
    /\ driver = NoDriver
    /\ \E r \in LoginResult(authRev, drivers, driverId, pin) :
            /\ loginError' = r.error
            /\ driver' = r.driver
            /\ ev' = [op |-> "login", id |-> driverId, pin |-> pin,
                      outcome |-> r.outcome, queried |-> r.queried]
    /\ UNCHANGED <<drivers, authRev>>
    /\ UNCHANGED tripVars
    /\ UNCHANGED fetchVars

\* DriverApp.handleDriverLogout
handleDriverLogout ==
    /\ driver # NoDriver
    /\ driver' = NoDriver
    /\ ev' = [op |-> "logout"]
    /\ UNCHANGED <<drivers, authRev, loginError>>
    /\ UNCHANGED tripVars
    /\ UNCHANGED fetchVars

\* An anonymous caller runs authenticate_driver directly (GRANT EXECUTE ... TO anon),
\* with the argument names the function declares.
CallAuthenticateDriver(a, b) ==
    /\ LET res == authenticate_driver(authRev, drivers, a, b)
       IN  \E row \in res.rows :
                ev' = [op |-> "authenticate_driver", id |-> a, pin |-> b,
                       row |-> row, queried |-> res.queried]
    /\ UNCHANGED authVars
    /\ UNCHANGED tripVars
    /\ UNCHANGED fetchVars

(* check_driver_exists, created with the second revision *)

\* The rows of drivers the function's WHERE clause keeps.
MatchLicense(tbl, driver_license) ==
    {d \in DOMAIN tbl :
        SqlEq(SqlLower(SqlTrim(tbl[d].license)), SqlLower(SqlTrim(driver_license)))}

FoundRow(tbl, d) ==
    [exists |-> TRUE, license_found |-> tbl[d].license, pin_found |-> tbl[d].pin,
     name_found |-> tbl[d].name]

NotFoundRow ==
    [exists |-> FALSE, license_found |-> NullText, pin_found |-> NullText,
     name_found |-> NULL]

\* The rows the function may return (LIMIT 1 without ORDER BY keeps any one
\* matching row).
check_driver_exists(tbl, driver_license) ==
    LET m == MatchLicense(tbl, driver_license)
    IN  IF m # {} THEN {FoundRow(tbl, d) : d \in m} ELSE {NotFoundRow}

\* An anonymous caller runs check_driver_exists (GRANT EXECUTE ... TO anon);
\* the function is SECURITY DEFINER and reads drivers whatever its policies.
CallCheckDriverExists(driver_license) ==
    /\ authRev = V2
    /\ \E row \in check_driver_exists(drivers, driver_license) :
            ev' = [op |-> "check_driver_exists", id |-> driver_license, row |-> row]
    /\ UNCHANGED authVars
    /\ UNCHANGED tripVars
    /\ UNCHANGED fetchVars

-----------------------------------------------------------------------------
(* Bearer token lookup *)

\* COALESCE(a, b)
Coalesce(a, b) == IF a # NULL THEN a ELSE b

\* The rows of drivers whose auth_token equals token_value.
TokenRows(tbl, token_value) ==
    {d \in DOMAIN tbl : UuidEq(tbl[d].auth_token, token_value)}

\* A lookup that falls back on the driver's id when no token is stored, as
\* the dispatcher's direct link does (auth_token || id).
get_driver_uuid_from_token_or_id(tbl, token_value) ==
    LET found == {d \in DOMAIN tbl : UuidEq(Coalesce(tbl[d].auth_token, d), token_value)}
    IN  IF found # {} THEN found ELSE {NULL}

\* get_driver_uuid_from_token: SELECT id INTO driver_uuid keeps the first row
\* found, and leaves driver_uuid NULL when there is none.
get_driver_uuid_from_token(tbl, token_value) ==
    IF TokenRows(tbl, token_value) # {} THEN TokenRows(tbl, token_value) ELSE {NULL}

\* The function evaluated for a token.
CallGetDriverUuidFromToken(token_value) ==
    /\ \E r \in get_driver_uuid_from_token(drivers, token_value) :
            ev' = [op |-> "get_driver_uuid_from_token", token |-> token_value, result |-> r]
    /\ UNCHANGED authVars
    /\ UNCHANGED tripVars
    /\ UNCHANGED fetchVars

\* Drivers.generateDirectLink: the value after /driver/auth/ in the link is
\* driver.auth_token || driver.id.
generateDirectLink(tbl, d) == Coalesce(tbl[d].auth_token, d)

\* The dispatcher hands out the link of driver d and the token lookup runs
\* for the value the link embeds.
OpenDirectLink(d) ==
    /\ d \in DOMAIN drivers
    /\ LET v == generateDirectLink(drivers, d)
       IN  \E r \in get_driver_uuid_from_token(drivers, v) :
                ev' = [op |-> "directLink", driver |-> d, token |-> v, result |-> r]
    /\ UNCHANGED authVars
    /\ UNCHANGED tripVars
    /\ UNCHANGED fetchVars

-----------------------------------------------------------------------------
(* Row level security on projects *)

\* The driver the policies compare driver_id with: get_driver_uuid_from_token
\* of the x-driver-token request header, or else of the app.driver_token setting.
PolicyDriver(tbl, header, app_driver_token) ==
    get_driver_uuid_from_token(tbl, Coalesce(header, app_driver_token))

\* USING of "Drivers can read their projects via token" and of "Drivers can
\* update their projects via token", and the latter's WITH CHECK.
PolicyAllows(tbl, row, header, app_driver_token) ==
    \E u \in PolicyDriver(tbl, header, app_driver_token) : UuidEq(row.driver_id, u)

\* A variant of the update policy without WITH CHECK on the new row.
WithCheck_none(tbl, newRow, header) == TRUE

\* WITH CHECK of "Drivers can update their projects via token", for the row
\* as the UPDATE would leave it.
WithCheck(tbl, newRow, header) == PolicyAllows(tbl, newRow, header, NULL)

-----------------------------------------------------------------------------
(* Projects and the status transition *)

ProjectIds == {"p1", "p2"}
TargetStatuses == {"accepted", "started", "declined", "completed"}

\* A project as created and assigned by the dispatcher; timestamps are 0 while NULL.
NewProject(d) ==
    [driver_id |-> d, status |-> "active", acceptance_status |-> "pending",
     accepted_at |-> 0, accepted_by |-> NULL, started_at |-> 0,
     completed_at |-> 0, completed_by |-> NULL]

\* SET col = value for the columns of u, the other columns keep their value.
ApplyUpdates(row, u) == [c \in DOMAIN row |-> IF c \in DOMAIN u THEN u[c] ELSE row[c]]

\* The driver a project is assigned to; NULL for no driver and for no project.
OwnerOf(prj, p) == IF p \in DOMAIN prj THEN prj[p].driver_id ELSE NULL

\* The dispatcher assigns project p to driver d, or to nobody.
Reassign(p, d) ==
    /\ p \in DOMAIN projects
    /\ projects[p].driver_id # d
    /\ projects' = [projects EXCEPT ![p].driver_id = d]
    /\ ev' = [op |-> "reassign"]
    /\ UNCHANGED <<now, localProjects, upd, rpc>>
    /\ UNCHANGED authVars
    /\ UNCHANGED fetchVars

\* An anonymous caller whose request carries the header runs
\* UPDATE projects SET driver_id = d WHERE id = p under the update policy:
\* USING selects the rows, and the statement fails unless WITH CHECK holds
\* for every row as updated.
PolicyUpdateDriver(header, p, d) ==
    /\ LET t == {q \in DOMAIN projects :
                    q = p /\ PolicyAllows(drivers, projects[q], header, NULL)}
           ok == \A q \in t :
                    WithCheck(drivers, [projects[q] EXCEPT !.driver_id = d], header)
       IN  /\ projects' = [q \in DOMAIN projects |->
                              IF ok /\ q \in t THEN [projects[q] EXCEPT !.driver_id = d]
                              ELSE projects[q]]
           /\ ev' = [op |-> "updateDriverRef", header |-> header, project |-> p,
                     new_driver |-> d, rows |-> IF ok THEN t ELSE {},
                     outcome |-> IF ok THEN "updated" ELSE "rejected"]
    /\ UNCHANGED <<now, localProjects, upd, rpc>>
    /\ UNCHANGED authVars
    /\ UNCHANGED fetchVars

(* The client: DriverDataProvider.updateProjectStatus *)

\* A variant that stamps the acceptance without the accepting driver.
ClientUpdates_no_actor(status, at, driverUuid) ==
    IF status = "completed"
    THEN [status |-> "completed", completed_at |-> at, completed_by |-> driverUuid]
    ELSE IF status = "accepted"
    THEN [acceptance_status |-> status, accepted_at |-> at]
    ELSE [acceptance_status |-> status]

\* The `updates` object the client builds for a status.
ClientUpdates(status, at, driverUuid) ==
    IF status = "completed"
    THEN [status |-> "completed", completed_at |-> at, completed_by |-> driverUuid]
    ELSE IF status = "accepted"
    THEN [acceptance_status |-> status, accepted_at |-> at, accepted_by |-> driverUuid]
    ELSE [acceptance_status |-> status]

\* The rows .update(updates).eq('id', projectId).eq('driver_id', driverUuid)
\* reaches under the update policy, for a request with the x-driver-token header.
ClientUpdateTargets(tbl, prj, projectId, driverUuid, header) ==
    {p \in DOMAIN prj :
        /\ p = projectId
        /\ UuidEq(prj[p].driver_id, driverUuid)
        /\ PolicyAllows(tbl, prj[p], header, NULL)}

\* setProjects(prev => prev.map(...)) after the update.
LocalAfterUpdate(local, projectId, status) ==
    [p \in DOMAIN local |->
        IF p = projectId
        THEN IF status = "completed"
             THEN [local[p] EXCEPT !.status = "completed"]
             ELSE [local[p] EXCEPT !.acceptance_status = status]
        ELSE local[p]]

\* What updateProjectStatus does once the response is there: it throws when
\* the response carries an error and resolves otherwise.
ClientOutcome(error) == IF error THEN "threw" ELSE "resolved"

\* updateProjectStatus builds the updates and sends the request.
UpdSend(projectId, status) ==
    /\ upd = Idle
    /\ rpc = Idle
    /\ driver # NoDriver
    /\ now <= MaxClock
    /\ upd' = [pc |-> "sent", projectId |-> projectId, status |-> status,
               driverUuid |-> driver.uuid, header |-> driver.token,
               updates |-> ClientUpdates(status, now, driver.uuid),
               ownerAtCall |-> OwnerOf(projects, projectId)]
    /\ now' = now + 1
    /\ ev' = [op |-> "call"]
    /\ UNCHANGED <<projects, localProjects, rpc>>
    /\ UNCHANGED authVars
    /\ UNCHANGED fetchVars

\* The database runs the UPDATE; the response carries no row count.
UpdWrite ==
    /\ upd.pc = "sent"
    /\ LET t == ClientUpdateTargets(drivers, projects, upd.projectId, upd.driverUuid,
                                    upd.header)
       IN  /\ projects' = [p \in DOMAIN projects |->
                              IF p \in t THEN ApplyUpdates(projects[p], upd.updates)
                              ELSE projects[p]]
           /\ upd' = [pc |-> "responded", projectId |-> upd.projectId,
                      status |-> upd.status, driverUuid |-> upd.driverUuid,
                      error |-> FALSE, rows |-> t,
                      ownerAtCall |-> upd.ownerAtCall,
                      ownerAtWrite |-> OwnerOf(projects, upd.projectId)]
    /\ UNCHANGED <<now, localProjects, rpc, ev>>
    /\ UNCHANGED authVars
    /\ UNCHANGED fetchVars

\* The request fails on its way: the response carries an error.
UpdFail ==
    /\ upd.pc = "sent"
    /\ upd' = [pc |-> "responded", projectId |-> upd.projectId,
               status |-> upd.status, driverUuid |-> upd.driverUuid,
               error |-> TRUE, rows |-> {},
               ownerAtCall |-> upd.ownerAtCall,
               ownerAtWrite |-> OwnerOf(projects, upd.projectId)]
    /\ UNCHANGED <<projects, now, localProjects, rpc, ev>>
    /\ UNCHANGED authVars
    /\ UNCHANGED fetchVars

\* updateProjectStatus after the await: throw on error, else patch the local list.
UpdFinish ==
    /\ upd.pc = "responded"
    /\ localProjects' = IF upd.error THEN localProjects
                        ELSE LocalAfterUpdate(localProjects, upd.projectId, upd.status)
    /\ ev' = [op |-> "updateProjectStatus", project |-> upd.projectId,
              status |-> upd.status, driver_uuid |-> upd.driverUuid,
              outcome |-> ClientOutcome(upd.error), failed |-> upd.error,
              rows |-> upd.rows,
              ownerAtCall |-> upd.ownerAtCall, ownerAtWrite |-> upd.ownerAtWrite]
    /\ upd' = Idle
    /\ UNCHANGED <<projects, now, rpc>>
    /\ UNCHANGED authVars
    /\ UNCHANGED fetchVars

(* The server: update_driver_project_status *)

\* A variant in which a change on the acceptance axis reopens the project.
ServerUpdates_reopen(new_status, at, driver_uuid) ==
    IF new_status = "completed"
    THEN [status |-> "completed", completed_at |-> at, completed_by |-> driver_uuid]
    ELSE IF new_status = "accepted"
    THEN [status |-> "active", acceptance_status |-> new_status,
          accepted_at |-> at, accepted_by |-> driver_uuid]
    ELSE IF new_status = "started"
    THEN [status |-> "active", acceptance_status |-> new_status, started_at |-> at]
    ELSE [status |-> "active", acceptance_status |-> new_status]

\* A variant that writes the new status on both axes when completing.
ServerUpdates_both_axes(new_status, at, driver_uuid) ==
    IF new_status = "completed"
    THEN [status |-> "completed", acceptance_status |-> "completed",
          completed_at |-> at, completed_by |-> driver_uuid]
    ELSE IF new_status = "accepted"
    THEN [acceptance_status |-> new_status, accepted_at |-> at, accepted_by |-> driver_uuid]
    ELSE IF new_status = "started"
    THEN [acceptance_status |-> new_status, started_at |-> at]
    ELSE [acceptance_status |-> new_status]

\* update_data as the function builds it.
ServerUpdates(new_status, at, driver_uuid) ==
    IF new_status = "completed"
    THEN [status |-> "completed", completed_at |-> at, completed_by |-> driver_uuid]
    ELSE IF new_status = "accepted"
    THEN [acceptance_status |-> new_status, accepted_at |-> at, accepted_by |-> driver_uuid]
    ELSE IF new_status = "started"
    THEN [acceptance_status |-> new_status, started_at |-> at]
    ELSE [acceptance_status |-> new_status]

\* A variant that finds the project by its id alone.
OwnedRows_by_id(prj, project_uuid, driver_uuid) ==
    {p \in DOMAIN prj : p = project_uuid}

\* WHERE id = project_uuid AND driver_id = driver_uuid; the function is
\* SECURITY DEFINER, the policies do not apply to it.
OwnedRows(prj, project_uuid, driver_uuid) ==
    {p \in DOMAIN prj : p = project_uuid /\ UuidEq(prj[p].driver_id, driver_uuid)}

\* An anonymous caller, whose request carries the x-driver-token header, calls
\* the function: set_config, then the ownership check, which raises or passes.
RpcCheck(header, project_uuid, driver_uuid, new_status) ==
    /\ rpc = Idle
    /\ upd = Idle
    /\ now <= MaxClock
    /\ IF OwnedRows(projects, project_uuid, driver_uuid) = {}
       THEN /\ ev' = [op |-> "update_driver_project_status", project |-> project_uuid,
                      driver_uuid |-> driver_uuid, status |-> new_status,
                      header |-> header, outcome |-> "exception", rows |-> {},
                      ownerAtCall |-> OwnerOf(projects, project_uuid),
                      ownerAtWrite |-> OwnerOf(projects, project_uuid)]
            /\ UNCHANGED <<rpc, now>>
       ELSE /\ rpc' = [pc |-> "checked", header |-> header, project_uuid |-> project_uuid,
                       driver_uuid |-> driver_uuid, new_status |-> new_status,
                       at |-> now, ownerAtCall |-> OwnerOf(projects, project_uuid)]
            /\ now' = now + 1
            /\ ev' = [op |-> "call"]
    /\ UNCHANGED <<projects, localProjects, upd>>
    /\ UNCHANGED authVars
    /\ UNCHANGED fetchVars

\* The function's UPDATE and RETURN FOUND.
RpcUpdate ==
    /\ rpc.pc = "checked"
    /\ LET t == OwnedRows(projects, rpc.project_uuid, rpc.driver_uuid)
           u == ServerUpdates(rpc.new_status, rpc.at, rpc.driver_uuid)
       IN  /\ projects' = [p \in DOMAIN projects |->
                              IF p \in t THEN ApplyUpdates(projects[p], u) ELSE projects[p]]
           /\ ev' = [op |-> "update_driver_project_status", project |-> rpc.project_uuid,
                     driver_uuid |-> rpc.driver_uuid, status |-> rpc.new_status,
                     header |-> rpc.header,
                     outcome |-> IF t # {} THEN "true" ELSE "false", rows |-> t,
                     ownerAtCall |-> rpc.ownerAtCall,
                     ownerAtWrite |-> OwnerOf(projects, rpc.project_uuid)]
    /\ rpc' = Idle
    /\ UNCHANGED <<now, localProjects, upd>>
    /\ UNCHANGED authVars
    /\ UNCHANGED fetchVars

(* The server: reading functions *)

\* get_driver_projects_with_context: the rows WHERE p.driver_id = driver_uuid.
get_driver_projects_with_context(prj, driver_uuid) ==
    {p \in DOMAIN prj : UuidEq(prj[p].driver_id, driver_uuid)}

\* An anonymous caller runs get_driver_projects_with_context.
CallGetDriverProjects(header, driver_uuid) ==
    /\ ev' = [op |-> "get_driver_projects_with_context", driver_uuid |-> driver_uuid,
              header |-> header,
              rows |-> get_driver_projects_with_context(projects, driver_uuid)]
    /\ UNCHANGED tripVars
    /\ UNCHANGED authVars
    /\ UNCHANGED fetchVars

\* An anonymous caller runs set_driver_context: app.driver_token holds
\* driver_uuid until the request's transaction ends.
CallSetDriverContext(header, driver_uuid) ==
    /\ ev' = [op |-> "set_driver_context", driver_uuid |-> driver_uuid, header |-> header,
              app_driver_token |-> driver_uuid,
              rows |-> {p \in DOMAIN projects :
                            PolicyAllows(drivers, projects[p], header, driver_uuid)}]
    /\ UNCHANGED tripVars
    /\ UNCHANGED authVars
    /\ UNCHANGED fetchVars

\* A variant that sets app.driver_token for the session (is_local false): a
\* request that runs while the call r is in progress reads its value.
OtherSetting_session(r) == IF r.pc = "checked" THEN r.driver_uuid ELSE NULL

\* set_config('app.driver_token', driver_uuid::text, true): is_local, the
\* value lasts to the end of the transaction of the call r that set it, so
\* current_setting in another request finds none.
OtherSetting(r) == NULL

\* An anonymous caller selects from projects under the read policy, possibly
\* while a call of update_driver_project_status is in progress.
SelectProjects(header) ==
    /\ ev' = [op |-> "select", header |-> header,
              token_value |-> Coalesce(header, OtherSetting(rpc)),
              during |-> IF rpc = Idle THEN NULL ELSE rpc.driver_uuid,
              rows |-> {p \in DOMAIN projects :
                            PolicyAllows(drivers, projects[p], header, OtherSetting(rpc))}]
    /\ UNCHANGED tripVars
    /\ UNCHANGED authVars
    /\ UNCHANGED fetchVars

-----------------------------------------------------------------------------
(* The client: DriverDataProvider.fetchDriverProjects and its effects *)

BaseDelay == 2000      \* setTimeout(..., 2000 * (retryCount + 1))
MaxRetries == 3        \* if (retryCount < 3), retryCount <= 3

\* Bounds of the model: how many fetchDriverProjects calls and armed retry
\* timers are pending at once, and how many projects queries fail; MaxOutages
\* is the smaller number of failures where the projects are reassigned too.
MaxPending == 3
MaxFailures == 3
MaxOutages == 1

\* The rows .from('projects').select(...).eq('driver_id', driverUuid) returns
\* under the read policy.
FetchRows(tbl, prj, driverUuid, header) ==
    {p \in DOMAIN prj :
        /\ UuidEq(prj[p].driver_id, driverUuid)
        /\ PolicyAllows(tbl, prj[p], header, NULL)}

\* The columns of the select list the client's list keeps.
LocalRow(row) == [status |-> row.status, acceptance_status |-> row.acceptance_status]

\* setProjects(projectsData)
LocalView(prj, rows) == [p \in rows |-> LocalRow(prj[p])]

\* A variant that merges the fetched rows into the list it has.
setProjects_merge(prev, projectsData) ==
    [p \in DOMAIN prev \cup DOMAIN projectsData |->
        IF p \in DOMAIN projectsData THEN projectsData[p] ELSE prev[p]]

\* setProjects(projectsData || []): the new list is the fetched one.
setProjects(prev, projectsData) == projectsData

\* The company ids of the fetched rows; every project has a company.
CompanyIds(view) == {"c1" : p \in DOMAIN view}

\* A call of fetchDriverProjects in the render whose retryCount is rc and
\* whose props are those of session d: the closure keeps driverUuid and the
\* client with its x-driver-token header. owner tells which caller awaits it,
\* mounted is that caller's `mounted` flag.
NewFetchFor(d, rc, owner) ==
    [rc |-> rc, owner |-> owner, mounted |-> TRUE, pc |-> "sent", rows |-> NoRows,
     uuid |-> d.uuid, token |-> d.token]

\* The same in a render of the current session.
NewFetch(rc, owner) == NewFetchFor(driver, rc, owner)

\* The calls in progress form a bag: two calls may be in the same state.
One(f) == SetToBag({f})
Replace(fs, f, g) == (fs (-) One(f)) (+) One(g)

\* The armed timers, kept ordered by their delay.
RECURSIVE Arm(_, _)
Arm(ts, delay) ==
    IF ts = <<>> THEN <<delay>>
    ELSE IF delay <= Head(ts) THEN <<delay>> \o ts
    ELSE <<Head(ts)>> \o Arm(Tail(ts), delay)

Disarm(ts, i) == [j \in 1..(Len(ts) - 1) |-> IF j < i THEN ts[j] ELSE ts[j + 1]]

\* The initial-fetch effect re-runs when fetchDriverProjects changes, which
\* it does when retryCount changes.
InitialEffectRuns(rc0, rc1) == rc1 # rc0

\* The auto-retry effect runs when retryCount or error changed, and fetches
\* when error is set and retryCount is within 1..3.
RetryEffectFetches(rc0, err0, rc1, err1) ==
    /\ rc1 # rc0 \/ err1 # err0
    /\ err1 # NULL
    /\ rc1 > 0
    /\ rc1 <= MaxRetries

\* How many fetches the effects start after a render.
Spawned(rc0, err0, rc1, err1) ==
    (IF InitialEffectRuns(rc0, rc1) THEN 1 ELSE 0)
        + (IF RetryEffectFetches(rc0, err0, rc1, err1) THEN 1 ELSE 0)

\* The cleanup of the initial-fetch effect clears the `mounted` flag of the
\* effect's earlier run.
RECURSIVE Unmount(_)
Unmount(fs) ==
    IF fs = EmptyBag THEN EmptyBag
    ELSE LET f == CHOOSE g \in BagToSet(fs) : TRUE
         IN  Unmount(fs (-) One(f))
                (+) One([f EXCEPT !.mounted = (f.owner # "initial" /\ f.mounted)])

\* The calls in progress after the effects of a render ran.
AfterEffects(fs, rc0, err0, rc1, err1) ==
    LET a == IF InitialEffectRuns(rc0, rc1)
             THEN Unmount(fs) (+) One(NewFetch(rc1, "initial"))
             ELSE fs
    IN  IF RetryEffectFetches(rc0, err0, rc1, err1)
        THEN a (+) One(NewFetch(rc1, "retry"))
        ELSE a

\* The history after the effects of a render started their fetches, each
\* `delay` after the failure it retries.
Retried(h, n, delay) ==
    [h EXCEPT !.retries = h.retries \o [i \in 1..n |-> delay]]

\* A variant in which the callers of fetchDriverProjects leave `loading` as
\* it is.
LoadingAfter_kept(f, rc0, rc1) ==
    IF InitialEffectRuns(rc0, rc1) THEN TRUE ELSE loading

\* `loading` after fetch f settled and the effects of the render ran.
LoadingAfter(f, rc0, rc1) ==
    IF InitialEffectRuns(rc0, rc1) THEN TRUE
    ELSE IF f.owner = "initial" /\ ~f.mounted THEN loading
    ELSE FALSE

\* The calls in progress and the timers armed.
Pending == BagCardinality(fetches) + Len(timers)

\* The projects query of fetch f is answered with rows.
FetchQuery(f) ==
    /\ BagIn(f, fetches)
    /\ f.pc = "sent"
    /\ LET rows == FetchRows(drivers, projects, f.uuid, f.token)
       IN  /\ fetches' = Replace(fetches, f,
                                 [f EXCEPT !.pc = "rows", !.rows = LocalView(projects, rows)])
           /\ ev' = [op |-> "fetchDriverProjects", driver_uuid |-> f.uuid,
                     header |-> f.token, rows |-> rows]
    /\ UNCHANGED <<fetchError, retryCount, loading, companies, timers, hist>>
    /\ UNCHANGED authVars
    /\ UNCHANGED tripVars

\* The projects query of fetch f is answered with an error.
QueryFails(f) ==
    /\ BagIn(f, fetches)
    /\ f.pc = "sent"
    /\ fetches' = Replace(fetches, f, [f EXCEPT !.pc = "failed"])
    /\ hist' = [hist EXCEPT !.failures = @ + 1]
    /\ ev' = [op |-> "fetch"]
    /\ UNCHANGED <<fetchError, retryCount, loading, companies, timers>>
    /\ UNCHANGED authVars
    /\ UNCHANGED tripVars

\* The same, for at most MaxFailures queries.
FetchQueryFail(f) == hist.failures < MaxFailures /\ QueryFails(f)

\* setError(null); setRetryCount(0), the caller's setLoading(false), and the
\* effects of the render that follows.
Finalize(f) ==
    /\ Pending - 1 + Spawned(retryCount, fetchError, 0, NULL) <= MaxPending
    /\ fetchError' = NULL
    /\ retryCount' = 0
    /\ loading' = LoadingAfter(f, retryCount, 0)
    /\ fetches' = AfterEffects(fetches (-) One(f), retryCount, fetchError, 0, NULL)
    /\ hist' = [hist EXCEPT !.succeeded = TRUE,
                            !.answers = IF f.pc = "rows" THEN Append(@, "rows") ELSE @]

\* fetchDriverProjects after the projects query: setProjects, then either the
\* companies query or the end of the try block.
FetchProjectsDone(f) ==
    /\ BagIn(f, fetches)
    /\ f.pc = "rows"
    /\ localProjects' = setProjects(localProjects, f.rows)
    /\ IF CompanyIds(f.rows) # {}
       THEN /\ fetches' = Replace(fetches, f, [f EXCEPT !.pc = "companies"])
            /\ hist' = [hist EXCEPT !.answers = Append(@, "rows")]
            /\ UNCHANGED <<fetchError, retryCount, loading>>
       ELSE Finalize(f)
    /\ ev' = [op |-> "setProjects", uuid |-> f.uuid, before |-> DOMAIN localProjects]
    /\ UNCHANGED <<companies, timers>>
    /\ UNCHANGED authVars
    /\ UNCHANGED <<projects, now, upd, rpc>>

\* A variant that throws the error of the companies query into the catch
\* block.
FetchCompaniesDone_throws(f, ok) ==
    /\ BagIn(f, fetches)
    /\ f.pc = "companies"
    /\ IF ok
       THEN /\ companies' = CompanyIds(f.rows)
            /\ Finalize(f)
            /\ UNCHANGED timers
       ELSE /\ fetchError' = "err"
            /\ timers' = IF f.rc < MaxRetries /\ Pending <= MaxPending
                          THEN Arm(timers, BaseDelay * (f.rc + 1)) ELSE timers
            /\ loading' = FALSE
            /\ fetches' = fetches (-) One(f)
            /\ UNCHANGED <<retryCount, companies, hist>>
    /\ ev' = [op |-> "companies", ok |-> ok]
    /\ UNCHANGED authVars
    /\ UNCHANGED tripVars

\* fetchDriverProjects after the companies query, which succeeded or failed.
FetchCompaniesDone(f, ok) ==
    /\ BagIn(f, fetches)
    /\ f.pc = "companies"
    /\ companies' = IF ok THEN CompanyIds(f.rows) ELSE companies
    /\ Finalize(f)
    /\ ev' = [op |-> "companies", ok |-> ok]
    /\ UNCHANGED timers
    /\ UNCHANGED authVars
    /\ UNCHANGED tripVars

\* The catch block: setError, and a timer when the closure's retryCount < 3.
CatchBlock(f) ==
    /\ BagIn(f, fetches)
    /\ f.pc = "failed"
    /\ fetchError' = "err"
    /\ timers' = IF f.rc < MaxRetries THEN Arm(timers, BaseDelay * (f.rc + 1)) ELSE timers
    /\ loading' = LoadingAfter(f, retryCount, retryCount)
    /\ fetches' = AfterEffects(fetches (-) One(f), retryCount, fetchError, retryCount, "err")
    /\ hist' = Retried([hist EXCEPT !.answers = Append(@, "error")],
                       Spawned(retryCount, fetchError, retryCount, "err"), 0)
    /\ ev' = [op |-> "setError", uuid |-> f.uuid]
    /\ UNCHANGED <<retryCount, companies>>
    /\ UNCHANGED authVars
    /\ UNCHANGED tripVars

\* The same, while it leaves at most MaxPending calls and timers.
FetchFailed(f) ==
    /\ Pending - 1 + Spawned(retryCount, fetchError, retryCount, "err")
            + (IF f.rc < MaxRetries THEN 1 ELSE 0) <= MaxPending
    /\ CatchBlock(f)

\* A timer runs: setRetryCount(prev => prev + 1), then the effects.
TimerRuns(i) ==
    /\ i \in 1..Len(timers)
    /\ timers' = Disarm(timers, i)
    /\ retryCount' = retryCount + 1
    /\ loading' = TRUE
    /\ fetches' = AfterEffects(fetches, retryCount, fetchError, retryCount + 1, fetchError)
    /\ hist' = Retried(hist, Spawned(retryCount, fetchError, retryCount + 1, fetchError),
                       timers[i])
    /\ ev' = [op |-> "fetch"]
    /\ UNCHANGED <<fetchError, companies>>
    /\ UNCHANGED authVars
    /\ UNCHANGED tripVars

\* The same, while it leaves at most MaxPending calls and timers.
TimerFire(i) ==
    /\ i \in 1..Len(timers)
    /\ Pending - 1 + Spawned(retryCount, fetchError, retryCount + 1, fetchError)
            <= MaxPending
    /\ TimerRuns(i)

-----------------------------------------------------------------------------
(* Specification of the authentication core: the dispatcher fills the drivers
   table, the database is migrated, drivers log in and out, anonymous callers
   run the functions granted to them. *)

\* The name the dispatcher gives each driver.
NameOf(d) == IF d = "d1" THEN "Ann" ELSE "Bob"

\* The drivers tables the Drivers form can have produced: no two rows with the
\* same license, no two with the same PIN, no two with the same token.
WellFormed(tbl) ==
    \A d \in DOMAIN tbl :
        /\ ~duplicateId(tbl, tbl[d], d)
        /\ ~duplicatePin(tbl, tbl[d], d)
        /\ \A e \in DOMAIN tbl \ {d} : ~UuidEq(tbl[d].auth_token, tbl[e].auth_token)

\* Tables whose drivers have no bearer token.
AuthTables ==
    {tbl \in UNION {[D -> [name : Names, license : FormLicenses, status : Statuses,
                           pin : FormPins, auth_token : {NULL}]] : D \in SUBSET DriverIds} :
        WellFormed(tbl) /\ \A d \in DOMAIN tbl : tbl[d].name = NameOf(d)}

InitAuth ==
    /\ drivers \in AuthTables
    /\ authRev = V1
    /\ driver = NoDriver
    /\ loginError = ""
    /\ projects = NoRows
    /\ now = 1
    /\ localProjects = NoRows
    /\ upd = Idle
    /\ rpc = Idle
    /\ fetchError = NULL
    /\ retryCount = 0
    /\ loading = FALSE
    /\ companies = {}
    /\ timers = <<>>
    /\ hist = NoHistory
    /\ fetches = EmptyBag
    /\ ev = [op |-> "init"]

NextAuth ==
    \/ MigrateAuth
    \/ \E i \in LoginIds, p \in LoginPins : DriverLogin_handleSubmit(i, p)
    \/ handleDriverLogout
    \/ \E a \in RpcIds, b \in RpcPins : CallAuthenticateDriver(a, b)

SpecAuth == InitAuth /\ [][NextAuth]_vars

-----------------------------------------------------------------------------
(* Claims about credential authentication, checked under SpecAuth *)

\* The login identifier as the specification normalizes it: trimmed, case-folded.
Normalized(s) == SqlLower(SqlTrim(s))

\* Empty after trimming (a NULL argument counts as empty).
Blank(s) == s = NullText \/ SqlTrim(s) = Empty

\* The driver a result row names.
RowDriver(row) == IF authRev = V1 THEN row.driver_id ELSE row.driver_id_result

LastIsLogin == ev.op = "login"
LastIsAuthCall == ev.op = "authenticate_driver"

\* C6 (as claimed): a login through DriverLogin whose identifier differs from a
\* stored driver's license only in letter case or surrounding whitespace, with
\* that driver's PIN, succeeds and hands that driver to DriverApp. Stated for
\* drivers that are not offline, so that only the identifier decides.
C6_NormalizedLoginSucceeds ==
    LastIsLogin =>
        \A d \in DOMAIN drivers :
            ( /\ Normalized(drivers[d].license) = Normalized(ev.id)
              /\ drivers[d].pin = ev.pin
              /\ drivers[d].status # "offline" )
            => (ev.outcome = "ok" /\ driver.uuid = d)

\* The supplied identifier names a driver and the PIN is not that driver's.
WrongPin(id, pin) ==
    /\ \E d \in DOMAIN drivers : Normalized(drivers[d].license) = Normalized(id)
    /\ \A d \in DOMAIN drivers :
            Normalized(drivers[d].license) = Normalized(id)
                => SqlTrim(drivers[d].pin) # SqlTrim(pin)

\* The supplied identifier is not empty and names no driver.
UnknownId(id) ==
    /\ ~Blank(id)
    /\ \A d \in DOMAIN drivers : Normalized(drivers[d].license) # Normalized(id)

\* C7: a login with a wrong PIN for a known identifier ends exactly as a login
\* with the same PIN for any non-empty identifier that names no driver, both
\* for the function called directly and for DriverLogin.
C7_WrongPinLikeUnknownId ==
    /\ (LastIsAuthCall /\ WrongPin(ev.id, ev.pin)) =>
            \A u \in RpcIds :
                UnknownId(u) => authenticate_driver(authRev, drivers, u, ev.pin).rows = {ev.row}
    /\ (LastIsLogin /\ WrongPin(ev.id, ev.pin)) =>
            \A u \in LoginIds :
                UnknownId(u) =>
                    \A r \in LoginResult(authRev, drivers, u, ev.pin) :
                        /\ r.outcome = ev.outcome
                        /\ r.error = loginError
                        /\ r.driver = driver

\* C7 witness: the function was called with a wrong PIN for a known driver and
\* another identifier is unknown.
C7_Witness ==
    /\ LastIsAuthCall
    /\ authRev = V2
    /\ ~Blank(ev.pin)
    /\ WrongPin(ev.id, ev.pin)
    /\ \E u \in RpcIds : UnknownId(u)

\* C8 (as claimed): a login attempt whose identifier or PIN is empty after
\* trimming ends in a validation failure and never queries the drivers table,
\* through DriverLogin and through the second revision of the function.
C8_BlankInputNeverQueries ==
    ((LastIsLogin \/ (LastIsAuthCall /\ authRev = V2)) /\ (Blank(ev.id) \/ Blank(ev.pin))) =>
        /\ ~ev.queried
        /\ LastIsLogin => ev.outcome = "validation"
        /\ LastIsAuthCall => ~ev.row.success

\* The supplied identifier and PIN are the stored ones of driver d.
ExactMatch(d, id, pin) == drivers[d].license = id /\ drivers[d].pin = pin

\* C9 (as claimed): when identifier and PIN match a stored driver, the
\* function succeeds with that driver's identity and name whatever the status.
C9_SucceedsForEveryStatus ==
    LastIsAuthCall =>
        \A d \in DOMAIN drivers :
            ExactMatch(d, ev.id, ev.pin) =>
                /\ ev.row.success
                /\ RowDriver(ev.row) = d
                /\ ev.row.driver_name = drivers[d].name

\* C9 (amended): it does so for available and busy drivers under both
\* revisions and for offline drivers under the second revision; the first
\* revision fails for an offline driver.
C9_SucceedsUnlessV1Offline ==
    LastIsAuthCall =>
        \A d \in DOMAIN drivers :
            ExactMatch(d, ev.id, ev.pin) =>
                IF authRev = V1 /\ drivers[d].status = "offline"
                THEN ev.row = FailRowV1
                ELSE /\ ev.row.success
                     /\ RowDriver(ev.row) = d
                     /\ ev.row.driver_name = drivers[d].name

\* C9 witness: the second revision authenticated an offline driver while
\* another driver is stored.
C9_Witness ==
    /\ LastIsAuthCall
    /\ authRev = V2
    /\ ev.row.success
    /\ \E d \in DOMAIN drivers : ExactMatch(d, ev.id, ev.pin) /\ drivers[d].status = "offline"
    /\ Cardinality(DOMAIN drivers) = 2

-----------------------------------------------------------------------------
(* Specification of the status transition: one driver's session, the
   dispatcher reassigning the project, anonymous callers of the server
   functions. *)

\* Two drivers; every choice of which of them has a bearer token.
ReadTables ==
    {[d \in DriverIds |->
        [name |-> NameOf(d),
         license |-> IF d = "d1" THEN <<"A">> ELSE <<"B">>,
         status |-> "available",
         pin |-> IF d = "d1" THEN <<"1", "2", "3", "4">> ELSE <<"4", "3", "2", "1">>,
         auth_token |-> tok[d]]] :
     tok \in {f \in [DriverIds -> Tokens \cup {NULL}] :
                /\ f["d1"] \in {NULL, "t1"}
                /\ f["d2"] \in {NULL, "t2"}}}

\* The same with a token for the second driver.
TripTables == {tbl \in ReadTables : tbl["d2"].auth_token # NULL}

\* DriverApp state after a direct-access login: the navigation state carries
\* the driver the token resolved to and the token.
TokenSession(tbl, d) ==
    [id |-> tbl[d].license, name |-> tbl[d].name, uuid |-> d, token |-> tbl[d].auth_token]

\* DriverApp state after a login with license and PIN.
CredentialSession(tbl, d) == handleDriverLogin(tbl[d].license, tbl[d].name, d)

\* The sessions driver d1 can have.
Sessions(tbl) ==
    {CredentialSession(tbl, "d1")}
        \cup {TokenSession(tbl, d) : d \in {e \in {"d1"} : tbl[e].auth_token # NULL}}

\* The x-driver-token header an anonymous caller's request may carry.
Headers == Tokens \cup {NULL}
CallerHeaders == {NULL, "t1"}

Init ==
    /\ drivers \in TripTables
    /\ authRev = V2
    /\ driver \in Sessions(drivers)
    /\ loginError = ""
    /\ \E d \in DriverIds \cup {NULL} : projects = [p \in {"p1"} |-> NewProject(d)]
    /\ now = 1
    /\ localProjects = LocalView(projects, FetchRows(drivers, projects, driver.uuid, driver.token))
    /\ upd = Idle
    /\ rpc = Idle
    /\ fetchError = NULL
    /\ retryCount = 0
    /\ loading = FALSE
    /\ companies = {}
    /\ timers = <<>>
    /\ hist = NoHistory
    /\ fetches = EmptyBag
    /\ ev = [op |-> "init"]

Next ==
    \/ \E p \in ProjectIds, d \in DriverIds \cup {NULL} : Reassign(p, d)
    \/ \E p \in ProjectIds, st \in TargetStatuses : UpdSend(p, st)
    \/ UpdWrite
    \/ UpdFail
    \/ UpdFinish
    \/ \E h \in CallerHeaders, p \in ProjectIds, d \in DriverIds, st \in TargetStatuses :
            RpcCheck(h, p, d, st)
    \/ RpcUpdate

Spec == Init /\ [][Next]_vars

-----------------------------------------------------------------------------
(* Claims about the status transition, checked under Spec *)

LastIsClientTransition == ev.op = "updateProjectStatus"
LastIsServerTransition == ev.op = "update_driver_project_status"
LastIsTransition == LastIsClientTransition \/ LastIsServerTransition

\* The failure the caller receives for a project that is not its own: the
\* server function raises, the client call throws.
NotOwnedFailure ==
    \/ LastIsServerTransition /\ ev.outcome = "exception"
    \/ LastIsClientTransition /\ ev.outcome = "threw"

\* The failure the caller receives when the write modified no row: the server
\* function returns false, the client call throws.
TransitionRejected ==
    \/ LastIsServerTransition /\ ev.outcome = "false"
    \/ LastIsClientTransition /\ ev.outcome = "threw"

\* C1 (as claimed): a transition call for an existing project whose assigned
\* driver differs from the calling driver, when the call is issued and when
\* its write runs, modifies no row and ends in a NotOwned failure.
C1_NonOwnerGetsNotOwned ==
    ( /\ LastIsTransition
      /\ ev.project \in DOMAIN projects
      /\ ev.ownerAtWrite # NULL
      /\ ~UuidEq(ev.ownerAtCall, ev.driver_uuid)
      /\ ~UuidEq(ev.ownerAtWrite, ev.driver_uuid) )
    => (ev.rows = {} /\ NotOwnedFailure)

\* C2 (as claimed): when the dispatcher reassigns the project after driver A
\* issued the transition and before A's write runs, the write modifies no row
\* and A's transition fails.
C2_ReassignedTransitionFails ==
    ( /\ LastIsTransition
      /\ UuidEq(ev.ownerAtCall, ev.driver_uuid)
      /\ ~UuidEq(ev.ownerAtWrite, ev.driver_uuid) )
    => (ev.rows = {} /\ (NotOwnedFailure \/ TransitionRejected))

\* C3 (as claimed): a transition whose ownership-filtered write ran and
\* modified no row is reported to its caller as TransitionRejected.
C3_ZeroRowsIsRejected ==
    ( /\ LastIsTransition
      /\ LastIsServerTransition => ev.outcome # "exception"
      /\ LastIsClientTransition => ~ev.failed
      /\ ev.rows = {} )
    => TransitionRejected

\* The driver the server resolves for the credential a caller presented.
Presented(header) == get_driver_uuid_from_token(drivers, header) \ {NULL}

\* C5 (as claimed): a server function acts for the declared driver only when
\* the caller presented a token that the server resolves to that driver.
C5_DeclaredDriverIsAuthenticated ==
    ( \/ LastIsServerTransition /\ ev.rows # {}
      \/ ev.op = "get_driver_projects_with_context" /\ ev.rows # {}
      \/ ev.op = "set_driver_context" )
    => ev.driver_uuid \in Presented(ev.header)

-----------------------------------------------------------------------------
(* Specification of the driver's reads: the mounted DriverDataProvider fetches
   from a store that answers, the dispatcher reassigns the project, anonymous
   callers read through the policies and the server functions. *)

InitFetch ==
    /\ drivers \in TripTables
    /\ authRev = V2
    /\ driver \in Sessions(drivers)
    /\ loginError = ""
    /\ \E d \in DriverIds \cup {NULL} : projects = [p \in {"p1"} |-> NewProject(d)]
    /\ now = 1
    /\ localProjects = NoRows
    /\ upd = Idle
    /\ rpc = Idle
    /\ fetchError = NULL
    /\ retryCount = 0
    /\ loading = TRUE
    /\ companies = {}
    /\ timers = <<>>
    /\ hist = NoHistory
    /\ fetches = One(NewFetch(0, "initial"))
    /\ ev = [op |-> "init"]

NextFetch ==
    \/ \E p \in ProjectIds, d \in DriverIds \cup {NULL} : Reassign(p, d)
    \/ \E f \in BagToSet(fetches) : FetchQuery(f)
    \/ \E f \in BagToSet(fetches) : FetchProjectsDone(f)
    \/ \E f \in BagToSet(fetches), ok \in BOOLEAN : FetchCompaniesDone(f, ok)
    \/ \E h \in CallerHeaders, d \in DriverIds : CallGetDriverProjects(h, d)
    \/ \E h \in Headers : SelectProjects(h)
    \/ \E t \in Uuids \cup {NULL} : CallGetDriverUuidFromToken(t)
    \/ \E d \in DriverIds : OpenDirectLink(d)

SpecFetch == InitFetch /\ [][NextFetch]_vars

-----------------------------------------------------------------------------
(* Claims about the reads *)

\* The driver a request's x-driver-token header resolves to, if any.
Resolved(header) == get_driver_uuid_from_token(drivers, header) \ {NULL}

\* C4: every project a fetch returns to a session (fetchDriverProjects,
\* get_driver_projects_with_context, a SELECT under the read policy) is
\* assigned to the driver that session resolved to; a project with no
\* driver is never returned.
C4_FetchReturnsOwnProjects ==
    /\ ev.op = "fetchDriverProjects" =>
            \A p \in ev.rows :
                /\ projects[p].driver_id # NULL
                /\ projects[p].driver_id = driver.uuid
    /\ ev.op \in {"get_driver_projects_with_context", "select"} =>
            \A p \in ev.rows : projects[p].driver_id \in Resolved(ev.header)

\* C10: get_driver_uuid_from_token resolves a token to driver D exactly when
\* D's stored token equals it, resolves no driver when no stored token equals
\* it, and never resolves a driver that has no stored token.
C10_TokenResolvesItsDriver ==
    ev.op = "get_driver_uuid_from_token" =>
        /\ \A d \in DOMAIN drivers :
                ev.result = d <=>
                    /\ ev.token # NULL
                    /\ drivers[d].auth_token = ev.token
        /\ ev.result = NULL <=>
                \A d \in DOMAIN drivers :
                    ev.token = NULL \/ drivers[d].auth_token # ev.token
        /\ \A d \in DOMAIN drivers : drivers[d].auth_token = NULL => ev.result # d

\* C10 witness: a token resolved to its driver while the other driver has
\* no stored token.
C10_Witness ==
    /\ ev.op = "get_driver_uuid_from_token"
    /\ ev.result \in DOMAIN drivers
    /\ drivers[ev.result].auth_token = ev.token
    /\ \E d \in DOMAIN drivers : drivers[d].auth_token = NULL

-----------------------------------------------------------------------------
(* Claims about the effects of a transition *)

\* The step in which the server function's UPDATE runs for new status st.
ServerWrites(st) == rpc.pc = "checked" /\ rpc' = Idle /\ rpc.new_status = st

\* The step in which the client's update query runs for status st.
ClientWrites(st) == upd.pc = "sent" /\ upd'.pc = "responded" /\ ~upd'.error /\ upd.status = st

\* The step in which the client patches its local list after a write for
\* status st that modified the project.
ClientPatches(st) ==
    upd.pc = "responded" /\ upd' = Idle /\ ~upd.error /\ upd.rows # {} /\ upd.status = st

\* The rows a write step modified.
Written == {p \in DOMAIN projects : projects'[p] # projects[p]}

\* The last call was a transition to st whose write modified project p.
Transitioned(p, st) == LastIsTransition /\ ev.status = st /\ ev.rows = {p}

\* C11: a transition to completed whose write modified the project sets the
\* lifecycle status to completed and keeps the acceptance status, in the
\* store (both paths) and in the client's local list.
C11_CompletedKeepsAcceptance ==
    [][ /\ (ServerWrites("completed") \/ ClientWrites("completed")) =>
              \A p \in Written :
                  /\ projects'[p].status = "completed"
                  /\ projects'[p].acceptance_status = projects[p].acceptance_status
        /\ ClientPatches("completed") =>
              \A p \in DOMAIN localProjects \cap upd.rows :
                  /\ localProjects'[p].status = "completed"
                  /\ localProjects'[p].acceptance_status = localProjects[p].acceptance_status
      ]_vars

\* C11 witness: the client completed an accepted project.
C11_Witness ==
    /\ LastIsClientTransition
    /\ \E p \in DOMAIN projects \cap DOMAIN localProjects :
        /\ Transitioned(p, "completed")
        /\ projects[p].status = "completed"
        /\ projects[p].acceptance_status = "accepted"
        /\ localProjects[p].status = "completed"

\* The rows the UPDATE of a write step reaches.
WriteTargets ==
    IF rpc.pc = "checked"
    THEN OwnedRows(projects, rpc.project_uuid, rpc.driver_uuid)
    ELSE upd'.rows

\* C12: a transition to accepted whose write modified the project of the
\* owning driver D sets the acceptance status to accepted, stamps a non-null
\* acceptance timestamp and records D as the accepting driver, on both paths.
C12_AcceptedStampsTimeAndDriver ==
    [][ (ServerWrites("accepted") \/ ClientWrites("accepted")) =>
            \A p \in WriteTargets :
                /\ projects'[p].acceptance_status = "accepted"
                /\ projects'[p].accepted_at # 0
                /\ projects[p].driver_id # NULL
                /\ projects'[p].accepted_by = projects[p].driver_id
      ]_vars

\* C12 witness: the client's call accepted the session driver's project.
C12_Witness ==
    /\ LastIsClientTransition
    /\ \E p \in DOMAIN projects :
        /\ Transitioned(p, "accepted")
        /\ projects[p].acceptance_status = "accepted"
        /\ projects[p].accepted_by = driver.uuid
        /\ projects[p].accepted_at > 0

\* C13 (as claimed): a transition to started whose write modified the
\* project sets the acceptance status to started and records a start
\* timestamp, on both paths.
C13_StartedStampsTime ==
    [][ (ServerWrites("started") \/ ClientWrites("started")) =>
            \A p \in WriteTargets :
                /\ projects'[p].acceptance_status = "started"
                /\ projects'[p].started_at # 0
      ]_vars

\* C14 (as claimed): once the acceptance status of a project is declined, no
\* step changes it.
C14_DeclinedIsTerminal ==
    [][ \A p \in DOMAIN projects :
            projects[p].acceptance_status = "declined" =>
                projects'[p].acceptance_status = "declined"
      ]_vars

\* The moves on the acceptance axis: accepted, then started, or declined
\* before started.
ForwardMoves ==
    {<<"pending", "accepted">>, <<"accepted", "started">>,
     <<"pending", "declined">>, <<"accepted", "declined">>}

\* C15 (as claimed): every step that changes the acceptance status of a
\* project is a forward move; started is applied only after accepted and
\* declined only from pending or accepted.
C15_AcceptanceMovesForward ==
    [][ \A p \in DOMAIN projects :
            projects'[p].acceptance_status # projects[p].acceptance_status =>
                <<projects[p].acceptance_status, projects'[p].acceptance_status>>
                    \in ForwardMoves
      ]_vars

\* C16: once the lifecycle status of a project is completed, no step sets it
\* back: it stays completed through every later transition call.
C16_CompletedIsAbsorbing ==
    [][ \A p \in DOMAIN projects :
            projects[p].status = "completed" => projects'[p].status = "completed"
      ]_vars

\* C16 witness: a transition on the acceptance axis modified a project that
\* was completed before.
C16_Witness ==
    \E p \in DOMAIN projects :
        /\ LastIsTransition
        /\ ev.status # "completed"
        /\ ev.rows = {p}
        /\ projects[p].status = "completed"

\* The fields of a project a transition may write.
TransitionFields(row) ==
    <<row.status, row.acceptance_status, row.accepted_at, row.accepted_by,
      row.started_at, row.completed_at, row.completed_by>>

\* C17 (as claimed): once the lifecycle status of a project is completed,
\* every later transition call leaves all of its fields unchanged.
C17_CompletedIsFrozen ==
    [][ \A p \in DOMAIN projects :
            projects[p].status = "completed" =>
                TransitionFields(projects'[p]) = TransitionFields(projects[p])
      ]_vars

\* The last transition call named a project that exists and is assigned to
\* another driver, or a project that does not exist.
OnForeignProject ==
    /\ ev.project \in DOMAIN projects
    /\ ev.ownerAtCall \notin {NULL, ev.driver_uuid}
    /\ ev.ownerAtWrite \notin {NULL, ev.driver_uuid}
OnMissingProject == ev.project \notin DOMAIN projects

\* C18: a transition on a project assigned to another driver gives its
\* caller what a transition on a project id that does not exist gives: the
\* server function raises the same exception, the client call modifies no row
\* and resolves (or throws on a failed request) in both cases.
C18_ForeignLikeMissing ==
    (LastIsTransition /\ (OnForeignProject \/ OnMissingProject)) =>
        /\ ev.rows = {}
        /\ LastIsServerTransition => ev.outcome = "exception"
        /\ LastIsClientTransition => ev.outcome = ClientOutcome(ev.failed)

\* C18 witness: the server function was called for another driver's project
\* while another project id does not exist.
C18_Witness ==
    /\ LastIsServerTransition
    /\ OnForeignProject
    /\ ev.outcome = "exception"
    /\ ProjectIds \ DOMAIN projects # {}

-----------------------------------------------------------------------------
(* Specification of the retries: the mounted DriverDataProvider of a token
   session fetches from a store whose projects query may fail. *)

InitRetry ==
    /\ drivers \in {tbl \in TripTables : tbl["d1"].auth_token # NULL}
    /\ authRev = V2
    /\ driver = TokenSession(drivers, "d1")
    /\ loginError = ""
    /\ \E d \in {"d1", NULL} : projects = [p \in {"p1"} |-> NewProject(d)]
    /\ now = 1
    /\ localProjects = NoRows
    /\ upd = Idle
    /\ rpc = Idle
    /\ fetchError = NULL
    /\ retryCount = 0
    /\ loading = TRUE
    /\ companies = {}
    /\ timers = <<>>
    /\ hist = NoHistory
    /\ fetches = One(NewFetch(0, "initial"))
    /\ ev = [op |-> "init"]

NextRetry ==
    \/ \E f \in BagToSet(fetches) : FetchQuery(f)
    \/ \E f \in BagToSet(fetches) : FetchQueryFail(f)
    \/ \E f \in BagToSet(fetches) : FetchProjectsDone(f)
    \/ \E f \in BagToSet(fetches), ok \in BOOLEAN : FetchCompaniesDone(f, ok)
    \/ \E f \in BagToSet(fetches) : FetchFailed(f)
    \/ \E i \in 1..Len(timers) : TimerFire(i)

SpecRetry == InitRetry /\ [][NextRetry]_vars

-----------------------------------------------------------------------------
(* Claims about the retries *)

\* C19 (as claimed): while no fetch has succeeded since the first failure,
\* the controller has started at most 3 retry fetches.
C19_AtMostThreeRetries ==
    ~hist.succeeded => Len(hist.retries) <= MaxRetries

\* No fetch is in progress and no timer is armed.
Settled == fetches = EmptyBag /\ timers = <<>>

\* The projects query failed twice in a row and was answered ever since.
TwoFailuresThenSuccess ==
    /\ Len(hist.answers) >= 3
    /\ \A i \in 1..Len(hist.answers) : hist.answers[i] = "error" <=> i <= 2

\* C20 (as claimed): after two consecutive failed fetches followed by
\* success, the controller has made exactly two retry fetches, the second
\* after a longer delay than the first, the project set is the fetched
\* result and the retry count is 0.
C20_TwoRetriesThenSuccess ==
    (Settled /\ TwoFailuresThenSuccess) =>
        /\ Len(hist.retries) = 2
        /\ hist.retries[1] < hist.retries[2]
        /\ localProjects
              = LocalView(projects, FetchRows(drivers, projects, driver.uuid, driver.token))
        /\ retryCount = 0

-----------------------------------------------------------------------------
(* Specification of the project list: the same provider, while the dispatcher
   reassigns the project and the projects query fails at most MaxOutages
   times. *)

InitView == InitRetry

NextView ==
    \/ \E p \in ProjectIds, d \in DriverIds \cup {NULL} : Reassign(p, d)
    \/ \E f \in BagToSet(fetches) : FetchQuery(f)
    \/ \E f \in BagToSet(fetches) : hist.failures < MaxOutages /\ FetchQueryFail(f)
    \/ \E f \in BagToSet(fetches) : FetchProjectsDone(f)
    \/ \E f \in BagToSet(fetches), ok \in BOOLEAN : FetchCompaniesDone(f, ok)
    \/ \E f \in BagToSet(fetches) : FetchFailed(f)
    \/ \E i \in 1..Len(timers) : TimerFire(i)

SpecView == InitView /\ [][NextView]_vars

-----------------------------------------------------------------------------
(* Claims about the project list *)

\* C21 (as claimed): the retry count is above 0 only while the last completed
\* fetch is a failed one, that is while `error` is set: a success resets it
\* and no timer of an earlier failure raises it afterwards.
C21_RetryCountOnlyAfterFailure ==
    retryCount > 0 => fetchError # NULL

\* The step is the arrival of an answer of the projects query; the fetch it
\* belongs to is the one that leaves its place in `fetches`.
RowsArrive == hist'.answers = Append(hist.answers, "rows")
ErrorArrives == hist'.answers = Append(hist.answers, "error")

\* C22: a successful fetch replaces the whole project list by exactly the
\* rows that fetch returned, and a failed fetch leaves the list unchanged.
C22_FetchReplacesProjects ==
    [][/\ RowsArrive =>
            \E f \in BagToSet(fetches) :
                /\ f.pc = "rows"
                /\ CopiesIn(f, fetches') < CopiesIn(f, fetches)
                /\ localProjects' = f.rows
       /\ ErrorArrives => localProjects' = localProjects]_vars

\* A fetch has just replaced a list that held a project the fetch did not
\* return, after an earlier fetch had failed.
C22_Witness ==
    /\ ev.op = "setProjects"
    /\ ev.before \ DOMAIN localProjects # {}
    /\ \E i \in 1..Len(hist.answers) : hist.answers[i] = "error"

\* The step ends a fetch whose companies query failed.
CompaniesFailed == ev'.op = "companies" /\ ~ev'.ok

\* C23: when the projects query succeeded and the companies query fails, the
\* fetched projects stay in the list, the error is cleared, the retry count
\* is reset to 0 and no retry timer is armed.
C23_CompaniesFailureIsSuccess ==
    [][CompaniesFailed =>
          /\ localProjects' = localProjects
          /\ fetchError' = NULL
          /\ retryCount' = 0
          /\ timers' = timers]_vars

\* The companies query has just failed for a fetch that followed a failed
\* one; the fetched project is in the list.
C23_Witness ==
    /\ ev.op = "companies"
    /\ ~ev.ok
    /\ \E i \in 1..Len(hist.answers) : hist.answers[i] = "error"
    /\ DOMAIN localProjects # {}
    /\ companies = {}

-----------------------------------------------------------------------------
(* Specification of the sessions: DriverApp replaces the driver it shows
   while the provider of the earlier driver has fetches in progress. The
   dashboard passes driverUuid and authToken on to DriverDataProvider. *)

\* A provider that has just been mounted for session d.
MountProvider(d) ==
    /\ localProjects' = NoRows
    /\ fetchError' = NULL
    /\ retryCount' = 0
    /\ loading' = TRUE
    /\ companies' = {}
    /\ timers' = <<>>
    /\ fetches' = One(NewFetchFor(d, 0, "initial"))
    /\ hist' = [NoHistory EXCEPT !.failures = hist.failures]

\* DriverApp's effect on location.state: the navigation state of a
\* direct-access login for driver d replaces the driver. Without a driver the
\* dashboard is mounted; with one, the mounted dashboard and its provider get
\* new props, fetchDriverProjects changes and both effects run again.
DriverApp_navigationState(d) ==
    /\ drivers[d].auth_token # NULL
    /\ driver # TokenSession(drivers, d)
    /\ driver' = TokenSession(drivers, d)
    /\ IF driver = NoDriver
       THEN MountProvider(driver')
       ELSE LET retry == fetchError # NULL /\ retryCount > 0 /\ retryCount <= MaxRetries
                n == IF retry THEN 1 ELSE 0
            IN  /\ Pending + 1 + n <= MaxPending
                /\ fetches' = (Unmount(fetches) (+) One(NewFetchFor(driver', retryCount, "initial")))
                                 (+) (IF retry THEN One(NewFetchFor(driver', retryCount, "retry"))
                                      ELSE EmptyBag)
                /\ loading' = TRUE
                /\ hist' = Retried([NoHistory EXCEPT !.failures = hist.failures], n, 0)
                /\ UNCHANGED <<localProjects, fetchError, retryCount, companies, timers>>
    /\ ev' = [op |-> "navigationState"]
    /\ UNCHANGED <<drivers, authRev, loginError>>
    /\ UNCHANGED <<projects, now, upd, rpc>>

\* DriverApp.handleDriverLogout with the dashboard mounted: DriverLogin takes
\* its place, the provider is unmounted and its state is gone. The calls and
\* timers it left behind update no mounted component.
DriverApp_handleDriverLogout ==
    /\ driver # NoDriver
    /\ upd = Idle
    /\ driver' = NoDriver
    /\ localProjects' = NoRows
    /\ fetchError' = NULL
    /\ retryCount' = 0
    /\ loading' = TRUE
    /\ companies' = {}
    /\ timers' = <<>>
    /\ fetches' = EmptyBag
    /\ hist' = [NoHistory EXCEPT !.failures = hist.failures]
    /\ ev' = [op |-> "logout"]
    /\ UNCHANGED <<drivers, authRev, loginError>>
    /\ UNCHANGED <<projects, now, upd, rpc>>

\* DriverApp.handleDriverLogin, called by DriverLogin for driver d: the
\* dashboard is mounted with a new provider.
DriverApp_handleDriverLogin(d) ==
    /\ driver = NoDriver
    /\ driver' = CredentialSession(drivers, d)
    /\ MountProvider(driver')
    /\ ev' = [op |-> "login", rows |-> {d}]
    /\ UNCHANGED <<drivers, authRev, loginError>>
    /\ UNCHANGED <<projects, now, upd, rpc>>

InitSession ==
    /\ drivers \in {tbl \in TripTables : tbl["d1"].auth_token # NULL}
    /\ authRev = V2
    /\ driver = TokenSession(drivers, "d1")
    /\ loginError = ""
    /\ \E d \in DriverIds : projects = [p \in {"p1"} |-> NewProject(d)]
    /\ now = 1
    /\ localProjects = NoRows
    /\ upd = Idle
    /\ rpc = Idle
    /\ fetchError = NULL
    /\ retryCount = 0
    /\ loading = TRUE
    /\ companies = {}
    /\ timers = <<>>
    /\ hist = NoHistory
    /\ fetches = One(NewFetch(0, "initial"))
    /\ ev = [op |-> "init"]

NextSession ==
    \/ \E d \in DriverIds : DriverApp_navigationState(d)
    \/ DriverApp_handleDriverLogout
    \/ \E d \in DriverIds : DriverApp_handleDriverLogin(d)
    \/ \E f \in BagToSet(fetches) : FetchQuery(f)
    \/ \E f \in BagToSet(fetches) : hist.failures < MaxOutages /\ FetchQueryFail(f)
    \/ \E f \in BagToSet(fetches) : FetchProjectsDone(f)
    \/ \E f \in BagToSet(fetches), ok \in BOOLEAN : FetchCompaniesDone(f, ok)
    \/ \E f \in BagToSet(fetches) : FetchFailed(f)
    \/ \E i \in 1..Len(timers) : TimerFire(i)

SpecSession == InitSession /\ [][NextSession]_vars

\* C24 (as claimed): no fetch started under an earlier driver identity
\* writes projects or an error into the state the current session sees.
C24_NoStaleWrites ==
    (driver # NoDriver /\ ev.op \in {"setProjects", "setError"}) => ev.uuid = driver.uuid

-----------------------------------------------------------------------------
(* Specification of the driver context: anonymous callers read projects and
   set the context while another caller's update_driver_project_status is in
   progress. *)

InitIsolation == Init

NextIsolation ==
    \/ \E p \in ProjectIds, d \in DriverIds \cup {NULL} : Reassign(p, d)
    \/ \E h \in CallerHeaders, p \in ProjectIds, d \in DriverIds, st \in TargetStatuses :
            RpcCheck(h, p, d, st)
    \/ RpcUpdate
    \/ \E h \in Headers : SelectProjects(h)
    \/ \E h \in CallerHeaders, d \in DriverIds : CallSetDriverContext(h, d)
    \/ \E h \in CallerHeaders, d \in DriverIds : CallGetDriverProjects(h, d)

SpecIsolation == InitIsolation /\ [][NextIsolation]_vars

-----------------------------------------------------------------------------
(* Specification of the Drivers form: the dispatcher adds, edits and deletes
   drivers. *)

InitForm ==
    /\ drivers = NoRows
    /\ authRev = V2
    /\ driver = NoDriver
    /\ loginError = ""
    /\ projects = NoRows
    /\ now = 1
    /\ localProjects = NoRows
    /\ upd = Idle
    /\ rpc = Idle
    /\ fetchError = NULL
    /\ retryCount = 0
    /\ loading = FALSE
    /\ companies = {}
    /\ timers = <<>>
    /\ hist = NoHistory
    /\ fetches = EmptyBag
    /\ ev = [op |-> "init"]

NextForm ==
    \/ \E formData \in FormData : Drivers_handleSubmit(formData)
    \/ \E d \in DriverIds, formData \in FormData : Drivers_handleUpdate(d, formData)
    \/ \E d \in DriverIds : Drivers_handleDeleteDriver(d)

SpecForm == InitForm /\ [][NextForm]_vars

\* C26 (as claimed): no two drivers share a trimmed, case-folded login
\* identifier and no two drivers share a PIN.
C26_IdentifiersAndPinsUnique ==
    \A d \in DOMAIN drivers : \A e \in DOMAIN drivers \ {d} :
        /\ Normalized(drivers[d].license) # Normalized(drivers[e].license)
        /\ drivers[d].pin # drivers[e].pin

-----------------------------------------------------------------------------
(* Claims about repeated transitions and what a transition records *)

\* Project p already has the status a transition to st gives it.
AlreadyApplied(p, st) ==
    IF st = "completed" THEN projects[p].status = "completed"
    ELSE projects[p].acceptance_status = st

\* C27 (as claimed): a transition whose target status the project already
\* has modifies no row: the timestamps and the actor of the first
\* application stay as they are.
C27_RepeatedTransitionWritesNothing ==
    [][ \A st \in TargetStatuses :
            (ServerWrites(st) \/ ClientWrites(st)) =>
                \A p \in DOMAIN projects :
                    AlreadyApplied(p, st) => projects'[p] = projects[p]
      ]_vars

\* The columns of a project that hold the time and the actor of a transition
\* to st; no column holds them for declined, none holds the actor of started.
StampOf(row, st) ==
    IF st = "accepted" THEN row.accepted_at
    ELSE IF st = "started" THEN row.started_at
    ELSE IF st = "completed" THEN row.completed_at
    ELSE 0

ActorOf(row, st) ==
    IF st = "accepted" THEN row.accepted_by
    ELSE IF st = "completed" THEN row.completed_by
    ELSE NULL

\* C28 (as claimed): every transition that modifies a project records a
\* timestamp of that transition and the acting driver on the project.
C28_TransitionRecordsTimeAndActor ==
    [][ \A st \in TargetStatuses :
            (ServerWrites(st) \/ ClientWrites(st)) =>
                \A p \in Written :
                    /\ StampOf(projects'[p], st) # 0
                    /\ ActorOf(projects'[p], st) # NULL
      ]_vars

-----------------------------------------------------------------------------
(* Claims about the driver context and the anonymous functions *)

\* The projects assigned to driver d.
AssignedTo(d) == {p \in DOMAIN projects : projects[p].driver_id = d}

\* C29 (as claimed): after set_driver_context(D), in the transaction that
\* set it, the policies on projects give the caller exactly the projects
\* assigned to D.
C29_ContextGrantsOwnProjects ==
    ev.op = "set_driver_context" => ev.rows = AssignedTo(ev.driver_uuid)

\* What an anonymous caller may run on the drivers table.
InitAnon == InitAuth

NextAnon ==
    \/ MigrateAuth
    \/ \E a \in RpcIds, b \in RpcPins : CallAuthenticateDriver(a, b)
    \/ \E a \in RpcIds : CallCheckDriverExists(a)

SpecAnon == InitAnon /\ [][NextAnon]_vars

\* C30 (as claimed): an anonymous caller who gives only a login identifier
\* gets the same answer whether or not a driver has it, and no stored PIN.
C30_IdentifierAloneRevealsNothing ==
    ev.op = "check_driver_exists" => ev.row = NotFoundRow

-----------------------------------------------------------------------------
(* Claims about the direct-access link, checked under SpecFetch *)

\* C31 (as claimed): the value the direct-access link of a driver embeds is
\* resolved by the token lookup to that driver, also when the driver has no
\* stored bearer token.
C31_LinkResolvesItsDriver ==
    ev.op = "directLink" => ev.result = ev.driver

-----------------------------------------------------------------------------
(* Further claims about the retries, checked under SpecRetry *)

\* C32 (as claimed): at most one call of fetchDriverProjects is in progress
\* at any time.
C32_AtMostOneFetchInFlight ==
    BagCardinality(fetches) <= 1

\* The waits of the retries the claimed backoff allows, in order.
Backoff == [k \in 1..MaxRetries |-> BaseDelay * k]

\* C33 (as claimed): while every fetch fails, the successive retries wait
\* 2000, 4000 and 6000 ms: the k-th retry follows a timer of 2000 x k.
C33_RetriesWaitTwoFourSix ==
    ~hist.succeeded =>
        \A k \in 1..Len(hist.retries) : k <= MaxRetries => hist.retries[k] = Backoff[k]

\* C34 (as claimed): while a retry timer is armed, the error the controller
\* exposes is null.
C34_ErrorOnlyAfterRetries ==
    timers # <<>> => fetchError = NULL

-----------------------------------------------------------------------------
(* Further claims about the status transition, checked under Spec *)

\* C35 (as claimed): when updateProjectStatus resolves, the project's
\* lifecycle and acceptance status in the local list are those of the store.
C35_LocalListFollowsStore ==
    (LastIsClientTransition /\ ev.outcome = "resolved") =>
        \A p \in DOMAIN localProjects \cap DOMAIN projects :
            p = ev.project =>
                /\ localProjects[p].status = projects[p].status
                /\ localProjects[p].acceptance_status = projects[p].acceptance_status

-----------------------------------------------------------------------------
(* Specification of the requested status: new_status of
   update_driver_project_status is text, and anonymous callers choose it. *)

AcceptanceStatuses == {"pending", "accepted", "started", "declined"}
LifecycleStatuses == {"active", "completed"}

\* The texts a caller passes as new_status.
RequestedStatuses == TargetStatuses \cup {"pending", "cancelled"}

InitStatus == Init

NextStatus ==
    \/ \E p \in ProjectIds, d \in DriverIds \cup {NULL} : Reassign(p, d)
    \/ \E h \in CallerHeaders, p \in ProjectIds, d \in DriverIds, st \in RequestedStatuses :
            RpcCheck(h, p, d, st)
    \/ RpcUpdate

SpecStatus == InitStatus /\ [][NextStatus]_vars

\* C36 (as claimed): whatever status the transition calls request, the
\* acceptance status of a project stays one of pending, accepted, started,
\* declined, its lifecycle status one of active, completed, and no call
\* returns an acceptance status to pending.
C36_StatusesStayInRange ==
    /\ [](\A p \in DOMAIN projects :
            /\ projects[p].acceptance_status \in AcceptanceStatuses
            /\ projects[p].status \in LifecycleStatuses)
    /\ [][\A p \in DOMAIN projects :
            projects[p].acceptance_status # "pending"
                => projects'[p].acceptance_status # "pending"]_vars

-----------------------------------------------------------------------------
(* Specification of the assignment: the transitions of both paths, and a
   caller who tries to change driver_id under the update policy. *)

InitAssign == Init

NextAssign ==
    \/ \E p \in ProjectIds, st \in TargetStatuses : UpdSend(p, st)
    \/ UpdWrite
    \/ UpdFail
    \/ UpdFinish
    \/ \E h \in CallerHeaders, p \in ProjectIds, d \in DriverIds, st \in TargetStatuses :
            RpcCheck(h, p, d, st)
    \/ RpcUpdate
    \/ \E h \in CallerHeaders, p \in ProjectIds, d \in DriverIds :
            PolicyUpdateDriver(h, p, d)

SpecAssign == InitAssign /\ [][NextAssign]_vars

\* The step is a write of a driver: the UPDATE of either transition path, or
\* an UPDATE of driver_id under the update policy.
DriverWrites ==
    \/ \E st \in TargetStatuses : ServerWrites(st) \/ ClientWrites(st)
    \/ ev'.op = "updateDriverRef"

\* C37: no write of a driver changes the driver a project is assigned to; an
\* UPDATE that would give the row a driver other than the token's is
\* rejected by WITH CHECK.
C37_DriverWritesKeepAssignment ==
    [][DriverWrites =>
          /\ \A p \in DOMAIN projects : projects'[p].driver_id = projects[p].driver_id
          /\ (ev'.op = "updateDriverRef" /\ ev'.rows # {})
                => \A u \in get_driver_uuid_from_token(drivers, ev'.header) :
                        ev'.new_driver = u
      ]_vars

\* The driver of token t1 tried to hand its project to another driver and
\* was rejected.
C37_Witness ==
    /\ ev.op = "updateDriverRef"
    /\ ev.outcome = "rejected"
    /\ ev.header # NULL
    /\ ev.new_driver \in DriverIds
    /\ \E u \in get_driver_uuid_from_token(drivers, ev.header) :
            ev.project \in DOMAIN projects /\ projects[ev.project].driver_id = u

-----------------------------------------------------------------------------
(* Specification of an outage: the mounted provider of a token session
   fetches from a store whose projects query always fails. Answers arrive
   and timers run in the end. *)

InitOutage == InitRetry

NextOutage ==
    \/ \E f \in BagToSet(fetches) : QueryFails(f)
    \/ \E f \in BagToSet(fetches) : CatchBlock(f)
    \/ \E i \in 1..Len(timers) : TimerRuns(i)

SpecOutage == InitOutage /\ [][NextOutage]_vars /\ WF_vars(NextOutage)

\* No fetch is in progress, no timer is armed, `loading` is false and the
\* error is shown.
Quiescent == Settled /\ ~loading /\ fetchError # NULL

\* C38: when every fetch fails, the controller comes to rest for good after
\* finitely many fetches: nothing in progress, no timer, not loading, error
\* set.
C38_OutageQuiesces == <>[]Quiescent

\* The controller at rest after all the fetches failed, the retries
\* included.
C38_Witness ==
    /\ Quiescent
    /\ hist.failures > MaxRetries
    /\ ~hist.succeeded

====
